---------------------------- MODULE Spec2Model ----------------------------
(***************************************************************************)
(* Model of the site-clone crawler: the sequential crawl of                *)
(* src/snapshot.ts (main, handlePage, the response handler, the three      *)
(* rewriting passes, slug / localHtmlFile).                                *)
(*                                                                         *)
(* Strings are sequences of tokens.  A token is a TLA+ string: the scheme  *)
(* ("https:"), the authority host ("//a"), the port (":81"), the query     *)
(* ("?q"), the fragment ("#f") are one token each; a path is spelled       *)
(* character by character ("/", "x", ".", ...), because slug and extname   *)
(* work on the characters of the path.  Text produced by the rewriter is   *)
(* spelled the same way ("./", "images/", "css/", ".html", ".css").        *)
(***************************************************************************)
EXTENDS Integers, Sequences, FiniteSets, TLC

(***************************************************************************)
(* Bounds of the model.                                                    *)
(***************************************************************************)
\* The page budget N of the crawl (snapshot.ts line 11 sets it to 10).
MAX_PAGES == 3
\* Image and stylesheet responses the sessions of one run observe.
MaxAssets == 2
\* Longest path of the URLs slug is applied to on its own.
MaxPathLen == 3
\* Largest MAX_PAGES and largest CONCURRENT of the concurrent variant.
MaxBudget == 2
MaxConcurrent == 3
\* snapshot.ts: const BATCH_SIZE = 3 (declared, read by no statement).
BATCH_SIZE == 3

(***************************************************************************)
(* Strings and URLs.                                                       *)
(***************************************************************************)
Schemes == {"https:", "http:"}
Hosts == {"//a", "//b"}
BadHost == "//["
Ports == {":81"}
Queries == {"?q", "?q=1"}
Hashes == {"#f"}
\* The characters [a-zA-Z0-9_-] that occur in the model's strings.
SafeChars == {"a", "b", "c", "d", "e", "i", "l", "m", "n", "o", "p", "r", "s",
              "t", "u", "x", "y", "_", "-"}
PathChars == SafeChars \cup {"/", "."}

RECURSIVE PathPrefixLen(_)
\* Length of the longest prefix of s made of path characters.
PathPrefixLen(s) ==
    IF s = <<>> \/ Head(s) \notin PathChars THEN 0 ELSE 1 + PathPrefixLen(Tail(s))

Drop(s, n) == SubSeq(s, n + 1, Len(s))
Take(s, n) == SubSeq(s, 1, n)

RECURSIVE LastIndexUpTo(_, _, _)
\* Index of the last occurrence of character c in s[1..n], 0 when there is none.
LastIndexUpTo(s, n, c) ==
    IF n = 0 THEN 0
    ELSE IF s[n] = c THEN n
    ELSE LastIndexUpTo(s, n - 1, c)
LastIndexOf(s, c) == LastIndexUpTo(s, Len(s), c)

\* The value `new URL(...)` throws on.
InvalidURL ==
    [scheme |-> "", host |-> "", port |-> "", path |-> <<>>, query |-> "", hash |-> ""]

\* Query and fragment of the tail t of a reference (what follows its path).
QueryOf(t) == IF t # <<>> /\ Head(t) \in Queries THEN Head(t) ELSE ""
AfterQuery(t) == IF t # <<>> /\ Head(t) \in Queries THEN Tail(t) ELSE t
HashOf(t) == IF AfterQuery(t) # <<>> /\ Head(AfterQuery(t)) \in Hashes
             THEN Head(AfterQuery(t)) ELSE ""

\* new URL(raw, base): WHATWG resolution of a reference against a base URL,
\* for references of the shape [scheme] [//host [:port]] [path] [?query] [#frag].
\* (Dot segments do not occur in the model's references.)
ParseURL(raw, base) ==
    LET hasScheme == raw # <<>> /\ Head(raw) \in Schemes
        r1 == IF hasScheme THEN Tail(raw) ELSE raw
        hasHost == r1 # <<>> /\ Head(r1) \in Hosts
        r2 == IF hasHost THEN Tail(r1) ELSE r1
        hasPort == hasHost /\ r2 # <<>> /\ Head(r2) \in Ports
        r3 == IF hasPort THEN Tail(r2) ELSE r2
        n == PathPrefixLen(r3)
        p == Take(r3, n)
        t == Drop(r3, n)
        dir == Take(base.path, LastIndexOf(base.path, "/"))
    IN  IF base = InvalidURL THEN InvalidURL
        ELSE IF r1 # <<>> /\ Head(r1) = BadHost THEN InvalidURL
        ELSE IF hasScheme /\ ~hasHost THEN InvalidURL
        ELSE IF hasHost THEN
            IF p # <<>> /\ Head(p) # "/" THEN InvalidURL
            ELSE [scheme |-> IF hasScheme THEN Head(raw) ELSE base.scheme,
                  host |-> Head(r1),
                  port |-> IF hasPort THEN Head(r2) ELSE "",
                  path |-> IF p = <<>> THEN <<"/">> ELSE p,
                  query |-> QueryOf(t), hash |-> HashOf(t)]
        ELSE IF p = <<>> THEN
            [base EXCEPT !.query = IF QueryOf(t) # "" THEN QueryOf(t) ELSE base.query,
                         !.hash = HashOf(t)]
        ELSE [base EXCEPT !.path = IF Head(p) = "/" THEN p ELSE dir \o p,
                          !.query = QueryOf(t), !.hash = HashOf(t)]

\* A base that is never consulted: the reference must be absolute.
NoBase == [scheme |-> "none:", host |-> "", port |-> "", path |-> <<"/">>,
           query |-> "", hash |-> ""]
\* new URL(raw): throws unless raw is an absolute URL.
ParseAbs(raw) ==
    IF raw # <<>> /\ Head(raw) \in Schemes THEN ParseURL(raw, NoBase) ELSE InvalidURL

Opt(tok) == IF tok = "" THEN <<>> ELSE <<tok>>
\* url.href: the canonical string of a URL.
Href(u) == <<u.scheme, u.host>> \o Opt(u.port) \o u.path \o Opt(u.query) \o Opt(u.hash)
\* url.origin and url.hostname.
Origin(u) == <<u.scheme, u.host>> \o Opt(u.port)
Hostname(u) == u.host

\* String.prototype.replace(/[^a-zA-Z0-9_-]/g, "_")
Sanitize(s) == [i \in DOMAIN s |-> IF s[i] \in SafeChars THEN s[i] ELSE "_"]
\* The replace without its second alternative: the leading slash only.
StripSlashes_leadingOnly(s) == IF s # <<>> /\ Head(s) = "/" THEN Tail(s) ELSE s
\* String.prototype.replace(/^\/|\/$/g, ""): one leading and one trailing slash.
StripSlashes(s) ==
    LET a == IF s # <<>> /\ Head(s) = "/" THEN Tail(s) ELSE s
    IN  IF a # <<>> /\ a[Len(a)] = "/" THEN Take(a, Len(a) - 1) ELSE a

slug(url) ==
    LET s == Sanitize(IF url.path = <<"/">> THEN <<"r", "o", "o", "t">>
                      ELSE StripSlashes(url.path))
    IN  IF s = <<>> THEN <<"i", "n", "d", "e", "x">> ELSE s

localHtmlFile(u) == slug(u) \o <<".html">>
isSameSite(root, child) == Origin(root) = Origin(child)

RECURSIVE TrimmedLen(_, _)
\* Length of s[1..n] without its trailing slashes (a lone "/" is kept).
TrimmedLen(s, n) == IF n > 1 /\ s[n] = "/" THEN TrimmedLen(s, n - 1) ELSE n
StripTrailingSlashes(s) == Take(s, TrimmedLen(s, Len(s)))
\* path.extname(pathname): from the last "." of the last path segment, "" when
\* there is none or when it is the first character of the segment.
ExtName(pathname) ==
    LET s == StripTrailingSlashes(pathname)
        base == Drop(s, LastIndexOf(s, "/"))
        d == LastIndexOf(base, ".")
    IN  IF d <= 1 THEN <<>> ELSE Drop(base, d - 1)

(***************************************************************************)
(* The captured document and the Link Rewriter.                            *)
(* The markup is the sequence of its elements, each with the value of the  *)
(* one attribute the crawler looks at: href of <a> and <link               *)
(* rel="stylesheet">, src of <img>; "text" is character data.  An absent   *)
(* attribute (getAttribute gives null) and an empty one are both <<>>.     *)
(***************************************************************************)
Elem(tag, val) == [tag |-> tag, val |-> val]

RECURSIVE ReplaceFrom(_, _, _, _)
\* The replacement scanning s from position i on.
ReplaceFrom(s, i, pat, rep) ==
    IF Len(s) - i + 1 < Len(pat) THEN SubSeq(s, i, Len(s))
    ELSE IF SubSeq(s, i, i + Len(pat) - 1) = pat
         THEN rep \o ReplaceFrom(s, i + Len(pat), pat, rep)
    ELSE <<s[i]>> \o ReplaceFrom(s, i + 1, pat, rep)
\* String.prototype.replace(new RegExp(escapeRegExp(pat), "g"), rep): every
\* occurrence of the literal pat, left to right, without overlap.
ReplaceAll(s, pat, rep) == ReplaceFrom(s, 1, pat, rep)

RECURSIVE ReplaceInMarkup(_, _, _)
\* A literal replaced wherever it occurs in the markup.
ReplaceInMarkup(html, pat, rep) ==
    IF html = <<>> THEN <<>>
    ELSE <<[Head(html) EXCEPT !.val = ReplaceAll(@, pat, rep)]>>
         \o ReplaceInMarkup(Tail(html), pat, rep)
RECURSIVE ReplaceHrefAttr(_, _, _)
\* The pattern href="<pat>" replaced: the whole value of an href attribute.
ReplaceHrefAttr(html, pat, rep) ==
    IF html = <<>> THEN <<>>
    ELSE <<IF Head(html).tag \in {"a", "link"} /\ Head(html).val = pat
           THEN [Head(html) EXCEPT !.val = rep] ELSE Head(html)>>
         \o ReplaceHrefAttr(Tail(html), pat, rep)

\* HTMLImageElement.src: the resolved absolute URL ("" without the attribute,
\* the attribute as written when it does not parse).
ImgSrc(raw, pageURL) ==
    IF raw = <<>> THEN <<>>
    ELSE IF ParseURL(raw, pageURL) = InvalidURL THEN raw
    ELSE Href(ParseURL(raw, pageURL))

RECURSIVE SelectTag(_, _)
SelectTag(html, tag) ==
    IF html = <<>> THEN <<>>
    ELSE (IF Head(html).tag = tag THEN <<Head(html).val>> ELSE <<>>)
         \o SelectTag(Tail(html), tag)

\* page.evaluate(...): anchors' href attributes, images' src properties,
\* stylesheet links' href attributes.
Extract(html, pageURL) ==
    [links |-> SelectTag(html, "a"),
     imgs |-> [i \in DOMAIN SelectTag(html, "img") |->
                  ImgSrc(SelectTag(html, "img")[i], pageURL)],
     css |-> SelectTag(html, "link")]

\* The scope test made on the origin instead of the hostname.
inScope_origin(rootURL, u) == Origin(u) = Origin(rootURL)
\* The scope test of the anchor pass and of the enqueue loop.
inScope(rootURL, u) == Hostname(u) = Hostname(rootURL)

RECURSIVE RewriteImgs(_, _)
RewriteImgs(html, imgs) ==
    IF imgs = <<>> THEN html
    ELSE LET imgURL == Head(imgs)
             u == ParseAbs(imgURL)
         IN  RewriteImgs(
                 IF imgURL = <<>> \/ u = InvalidURL THEN html
                 ELSE ReplaceInMarkup(html, imgURL,
                          <<"./", "images/">> \o slug(u) \o ExtName(u.path)),
                 Tail(imgs))

RECURSIVE RewriteCss(_, _, _)
RewriteCss(html, css, url) ==
    IF css = <<>> THEN html
    ELSE LET cssHref == Head(css)
             u == ParseURL(cssHref, url)
         IN  RewriteCss(
                 IF cssHref = <<>> \/ u = InvalidURL THEN html
                 ELSE ReplaceInMarkup(html, cssHref,
                          <<"./", "css/">> \o slug(u) \o <<".css">>),
                 Tail(css), url)

RECURSIVE RewriteAnchors(_, _, _, _)
RewriteAnchors(html, links, url, rootURL) ==
    IF links = <<>> THEN html
    ELSE LET anchorHref == Head(links)
             u == ParseURL(anchorHref, url)
         IN  RewriteAnchors(
                 IF anchorHref = <<>> \/ u = InvalidURL \/ ~inScope(rootURL, u) THEN html
                 ELSE ReplaceHrefAttr(html, anchorHref, <<"./">> \o localHtmlFile(u)),
                 Tail(links), url, rootURL)

\* The three passes, in the order of the code.
Rewrite(html, ex, url, rootURL) ==
    RewriteAnchors(RewriteCss(RewriteImgs(html, ex.imgs), ex.css, url),
                   ex.links, url, rootURL)

(***************************************************************************)
(* The inputs of a run: the seed the user types, the documents the site    *)
(* serves, the responses a session observes.                               *)
(***************************************************************************)
Seeds == {ParseAbs(<<"https:", "//a">>), ParseAbs(<<"https:", "//a", "/", "x">>)}

Docs ==
    { <<Elem("a", <<"/", "x">>), Elem("a", <<"https:", "//b", "/", "x">>),
        Elem("img", <<"https:", "//a", "/", "l", ".", "p">>),
        Elem("link", <<"/", "s">>),
        Elem("a", <<"http:", "//a", "/", "x">>), Elem("a", <<"/", "x", "?q">>)>>,
      <<Elem("a", <<"/">>), Elem("a", <<"/", "y">>), Elem("a", <<>>),
        Elem("a", <<BadHost>>), Elem("text", <<"/", "y">>),
        Elem("a", <<"https:", "//b", "/", "l", ".", "p">>),
        Elem("img", <<"https:", "//b", "/", "l", ".", "p">>)>> }

\* resp.headers()["content-type"] and resp.url() of the responses.
Responses ==
    { [ctype |-> "image/", url |-> <<"https:", "//a", "/", "l", ".", "p">>],
      [ctype |-> "text/css", url |-> <<"https:", "//a", "/", "s">>],
      [ctype |-> "text/html", url |-> <<"https:", "//a", "/", "x">>] }

\* The URLs a crawl of these documents from these seeds can visit.
PageURLs == [scheme : Schemes, host : {"//a"}, port : {""},
             path : {<<"/">>, <<"/", "x">>, <<"/", "y">>}, query : {"", "?q"},
             hash : {""}]
\* Extract and Rewrite on the model's inputs, evaluated once.
ExtractOf == [d \in Docs |-> [u \in PageURLs |-> Extract(d, u)]]
RewriteOf == [d \in Docs |-> [u \in PageURLs |-> [r \in Seeds |->
                 Rewrite(d, Extract(d, u), u, r)]]]

\* The file an image or stylesheet response is written to.
AssetFile(resp) ==
    LET u == ParseAbs(resp.url)
    IN  IF resp.ctype = "image/" THEN <<"images/">> \o slug(u) \o ExtName(u.path)
        ELSE <<"css/">> \o slug(u) \o <<".css">>
IsAsset(resp) == resp.ctype \in {"image/", "text/css"}
AssetFiles == {AssetFile(r) : r \in {x \in Responses : IsAsset(x)}}

(***************************************************************************)
(* State.                                                                  *)
(***************************************************************************)
VARIABLES
    rootURL,        \* the seed
    queue,          \* main: queue, a sequence of URLs
    crawled,        \* main: crawled, a set of hrefs
    pc,             \* position of main
    hp,             \* position of the running handlePage call ("idle": none)
    cur,            \* handlePage: url
    assetPromises,  \* the unsettled asset promises: how many there are of each
                    \* <<file, state, owner>>
    html,           \* the captured markup (page.evaluate / page.content)
    rewritten,      \* handlePage: rewritten
    pageWrites,     \* the completed fs.writeFile calls of page files, in order
    assetWrites,    \* completed fs.writeFile calls per asset file
    assetSeen,      \* image/css responses observed per asset file
    unclosed,       \* sessions handlePage opened and has not closed
    handled,        \* hrefs handed to handlePage, in order
    disc,           \* depth at which each enqueued href was discovered
    navFails,       \* some page.goto call has failed
    throws,         \* some handlePage call has thrown
    guardFired,     \* the crawled.has guard of main skipped a dequeued URL
    zipCalls,       \* calls of zipDirectory
    slugIn,         \* slug: the URL it is applied to
    slugOut,        \* slug: the values it has returned, in order
    cRoot,          \* concurrent variant, main: rootURL
    cQueue,         \* concurrent variant, main: queue
    visited,        \* concurrent variant, main: visited, a set of hrefs
    workers,        \* concurrent variant, main: workers; each promise with the
                    \* url and the position of its handlePage call
    mpc,            \* concurrent variant: position of main
    cMaxPages,      \* concurrent variant: the value of MAX_PAGES
    CONCURRENT,     \* concurrent variant: the value of CONCURRENT
    cPageWrites,    \* concurrent variant: completed writes of page files
    imgPending,     \* concurrent variant: response handlers still running
    imgSeen,        \* concurrent variant: image responses observed
    imgWrites,      \* concurrent variant: completed writes of image files
    cZipCalls,      \* concurrent variant: calls of zipDirectory
    cAbortAt        \* concurrent variant: the await of main that rejected

frontier == <<rootURL, queue, crawled>>
control == <<pc, hp, cur>>
assets == <<assetPromises, assetWrites, assetSeen>>
capture == <<html, rewritten, pageWrites>>
ghosts == <<unclosed, handled, disc, navFails, throws, guardFired, zipCalls>>
\* The state of the sequential crawl, and of slug called on its own.
seqVars == <<frontier, control, assets, capture, ghosts>>
slugVars == <<slugIn, slugOut>>
\* The state of the concurrent variant.
concVars == <<cRoot, cQueue, visited, workers, mpc, cMaxPages, CONCURRENT,
              cPageWrites, imgPending, imgSeen, imgWrites, cZipCalls, cAbortAt>>
notSeq == <<slugVars, concVars>>
notSlug == <<seqVars, concVars>>
notConc == <<seqVars, slugVars>>
vars == <<seqVars, slugVars, concVars>>

Range(s) == {s[i] : i \in DOMAIN s}
\* A promise is reading the response body or writing the file.  Its owner is
\* "page" while it is in assetPromises of the running handlePage call, "awaited"
\* once Promise.all(assetPromises) has been given it, "detached" once that
\* call has returned or thrown.  A settled promise has no further effect and
\* is not kept.
PendingStates == {"reading", "writing"}
Owners == {"page", "awaited", "detached"}
PromiseKeys == AssetFiles \X PendingStates \X Owners

\* No call of slug on its own is under way.
SlugIdle == slugIn = InvalidURL /\ slugOut = <<>>

\* The concurrent variant has not been started.
ConcOff ==
    /\ cRoot = InvalidURL
    /\ cQueue = <<>>
    /\ visited = {}
    /\ workers = <<>>
    /\ mpc = "off"
    /\ cMaxPages = 0
    /\ CONCURRENT = 0
    /\ cPageWrites = <<>>
    /\ imgPending = 0
    /\ imgSeen = 0
    /\ imgWrites = 0
    /\ cZipCalls = 0
    /\ cAbortAt = "none"

Init ==
    /\ SlugIdle
    /\ ConcOff
    /\ rootURL \in Seeds
    /\ queue = <<rootURL>>
    /\ crawled = {}
    /\ pc = "loop"
    /\ hp = "idle"
    /\ cur = InvalidURL
    /\ assetPromises = [k \in PromiseKeys |-> 0]
    /\ html = <<>>
    /\ rewritten = <<>>
    /\ pageWrites = <<>>
    /\ assetWrites = [f \in AssetFiles |-> 0]
    /\ assetSeen = [f \in AssetFiles |-> 0]
    /\ unclosed = 0
    /\ handled = <<>>
    /\ disc = [h \in {Href(rootURL)} |-> 0]
    /\ navFails = FALSE
    /\ throws = FALSE
    /\ guardFired = FALSE
    /\ zipCalls = 0

(***************************************************************************)
(* main: the crawl loop, browser.close, zipDirectory.                      *)
(***************************************************************************)
\* crawled.has applied to a URL object instead of its href: never true.
crawledHas_object(c, href) == FALSE
\* crawled.has(href)
crawledHas(c, href) == href \in c
\* queue.some comparing URL objects instead of hrefs: never true.
queueHas_object(q, href) == FALSE
\* queue.some((q) => q.href === href)
queueHas(q, href) == \E i \in DOMAIN q : Href(q[i]) = href
\* The loop test with <= for <.
LoopCond_offByOne(q, c) == Len(q) > 0 /\ Cardinality(c) <= MAX_PAGES
\* The condition of the while loop.
LoopCond(q, c) == Len(q) > 0 /\ Cardinality(c) < MAX_PAGES
\* queue.pop() for queue.shift(): the last entry instead of the first.
Shift_pop(q) == [url |-> q[Len(q)], rest |-> Take(q, Len(q) - 1)]
\* queue.shift()
Shift(q) == [url |-> Head(q), rest |-> Tail(q)]

Dequeue ==
    /\ UNCHANGED notSeq
    /\ pc = "loop"
    /\ LoopCond(queue, crawled)
    /\ LET url == Shift(queue).url
       IN  /\ queue' = Shift(queue).rest
           /\ IF crawledHas(crawled, Href(url))
              THEN /\ guardFired' = TRUE
                   /\ UNCHANGED <<crawled, pc, hp, cur, handled>>
              ELSE /\ crawled' = crawled \cup {Href(url)}
                   /\ handled' = Append(handled, Href(url))
                   /\ cur' = url
                   /\ pc' = "handle"
                   /\ hp' = "newPage"
                   /\ UNCHANGED guardFired
    /\ UNCHANGED <<rootURL, assets, capture, unclosed, disc, navFails, throws,
                   zipCalls>>

\* main going from the loop straight to zipDirectory, browser.close left out.
ExitLoop_skipClose ==
    /\ UNCHANGED notSeq
    /\ pc = "loop"
    /\ ~LoopCond(queue, crawled)
    /\ pc' = "zip"
    /\ zipCalls' = zipCalls + 1
    /\ UNCHANGED <<frontier, hp, cur, assets, capture, unclosed, handled, disc,
                   navFails, throws, guardFired>>

\* The while condition fails: main goes on to browser.close.
ExitLoop ==
    /\ UNCHANGED notSeq
    /\ pc = "loop"
    /\ ~LoopCond(queue, crawled)
    /\ pc' = "browserClose"
    /\ UNCHANGED <<frontier, hp, cur, assets, capture, ghosts>>

\* await browser.close(): resolves, or rejects into main().catch (exit 1).
BrowserClose ==
    /\ UNCHANGED notSeq
    /\ pc = "browserClose"
    /\ \/ /\ pc' = "zip"
          /\ zipCalls' = zipCalls + 1
       \/ /\ pc' = "aborted"
          /\ UNCHANGED zipCalls
    /\ UNCHANGED <<frontier, hp, cur, assets, capture, unclosed, handled, disc,
                   navFails, throws, guardFired>>

\* The count of the final console.log, printed once zipDirectory has resolved.
FinalCount == Cardinality(crawled)

\* await zipDirectory(...): resolves, or rejects into main().catch (exit 1).
Zip ==
    /\ UNCHANGED notSeq
    /\ pc = "zip"
    /\ \/ pc' = "done"
       \/ pc' = "aborted"
    /\ UNCHANGED <<frontier, hp, cur, assets, capture, ghosts>>

(***************************************************************************)
(* handlePage.                                                             *)
(***************************************************************************)
\* The promises of owner o change owner to o2 (those of o2 stay).
Handover(ap, from, o2) ==
    [k \in PromiseKeys |->
        IF k[3] \in from THEN 0
        ELSE IF k[3] = o2
             THEN ap[k] + ap[<<k[1], k[2], "page">>] * (IF "page" \in from THEN 1 ELSE 0)
                        + ap[<<k[1], k[2], "awaited">>]
                          * (IF "awaited" \in from THEN 1 ELSE 0)
        ELSE ap[k]]
\* No promise of these owners is unsettled.
Settled(ap, owners) == \A k \in PromiseKeys : k[3] \in owners => ap[k] = 0

\* handlePage returns or throws: main is back at the loop test (the try/catch
\* of main swallows the exception).  The asset promises that have not settled
\* go on running.
BackToMain ==
    /\ pc' = "loop"
    /\ hp' = "idle"
    /\ cur' = InvalidURL
    /\ assetPromises' = Handover(assetPromises, {"page", "awaited"}, "detached")
    /\ html' = <<>>
    /\ rewritten' = <<>>

\* const page = await browser.newPage()
NewPage ==
    /\ UNCHANGED notSeq
    /\ hp = "newPage"
    /\ hp' = "intercept"
    /\ unclosed' = unclosed + 1
    /\ UNCHANGED <<frontier, pc, cur, assets, capture, handled, disc, navFails,
                   throws, guardFired, zipCalls>>

\* setRequestInterception, the handlers, the directories, and page.goto begun.
Intercept ==
    /\ UNCHANGED notSeq
    /\ hp = "intercept"
    /\ hp' = "goto"
    /\ UNCHANGED <<frontier, pc, cur, assets, capture, ghosts>>

\* page.goto resolved: Promise.all is given the promises pushed so far.
GotoOk ==
    /\ UNCHANGED notSeq
    /\ hp = "goto"
    /\ hp' = "waitAssets"
    /\ assetPromises' = Handover(assetPromises, {"page"}, "awaited")
    /\ UNCHANGED <<frontier, pc, cur, assetWrites, assetSeen, capture, ghosts>>

\* page.goto rejected (timeout, network error): the catch block closes the page.
GotoFail ==
    /\ UNCHANGED notSeq
    /\ hp = "goto"
    /\ hp' = "closeFailed"
    /\ navFails' = TRUE
    /\ UNCHANGED <<frontier, pc, cur, assets, capture, unclosed, handled, disc,
                   throws, guardFired, zipCalls>>

\* The catch block without its return: handlePage goes on to Promise.all.
CloseFailed_noReturn ==
    /\ UNCHANGED notSeq
    /\ hp = "closeFailed"
    /\ unclosed' = unclosed - 1
    /\ hp' = "waitAssets"
    /\ assetPromises' = Handover(assetPromises, {"page"}, "awaited")
    /\ UNCHANGED <<frontier, pc, cur, assetWrites, assetSeen, capture, handled, disc,
                   navFails, throws, guardFired, zipCalls>>

\* await page.close(); return;  in the catch block.
CloseFailed ==
    /\ UNCHANGED notSeq
    /\ hp = "closeFailed"
    /\ unclosed' = unclosed - 1
    /\ BackToMain
    /\ UNCHANGED <<frontier, pageWrites, assetWrites, assetSeen, handled, disc,
                   navFails, throws, guardFired, zipCalls>>

\* await Promise.all(assetPromises) resolves.
AssetsAwaited ==
    /\ UNCHANGED notSeq
    /\ hp = "waitAssets"
    /\ Settled(assetPromises, {"awaited"})
    /\ hp' = "evaluate"
    /\ UNCHANGED <<frontier, pc, cur, assets, capture, ghosts>>

\* await page.evaluate(...): the document the site served for this URL.
Evaluate ==
    /\ UNCHANGED notSeq
    /\ hp = "evaluate"
    /\ \E d \in Docs : html' = d
    /\ hp' = "content"
    /\ UNCHANGED <<frontier, pc, cur, assets, rewritten, pageWrites, ghosts>>

\* await page.content()
Content ==
    /\ UNCHANGED notSeq
    /\ hp = "content"
    /\ hp' = "sleep"
    /\ UNCHANGED <<frontier, pc, cur, assets, capture, ghosts>>

\* await new Promise((resolve) => setTimeout(resolve, 3000))
Sleep ==
    /\ UNCHANGED notSeq
    /\ hp = "sleep"
    /\ hp' = "close"
    /\ UNCHANGED <<frontier, pc, cur, assets, capture, ghosts>>

\* await page.close(), then the three rewriting passes; fs.writeFile begun.
ClosePage ==
    /\ UNCHANGED notSeq
    /\ hp = "close"
    /\ unclosed' = unclosed - 1
    /\ rewritten' = RewriteOf[html][cur][rootURL]
    /\ hp' = "write"
    /\ UNCHANGED <<frontier, pc, cur, assets, html, pageWrites, handled, disc,
                   navFails, throws, guardFired, zipCalls>>

RECURSIVE EnqueueLinks(_, _, _, _, _)
\* The loop that adds the links of the page to the queue.
EnqueueLinks(q, links, url, root, c) ==
    IF links = <<>> THEN q
    ELSE LET link == Head(links)
             nextURL == ParseURL(link, url)
         IN  EnqueueLinks(
                 IF link = <<>> \/ nextURL = InvalidURL THEN q
                 ELSE IF /\ inScope(root, nextURL)
                         /\ ~queueHas(q, Href(nextURL))
                         /\ ~crawledHas(c, Href(nextURL))
                      THEN Append(q, nextURL)
                      ELSE q,
                 Tail(links), url, root, c)

\* await fs.writeFile(filePath, rewritten) resolved, then the enqueue loop.
WritePage ==
    /\ UNCHANGED notSeq
    /\ hp = "write"
    /\ pageWrites' = Append(pageWrites, [file |-> localHtmlFile(cur), url |-> Href(cur),
                                         html |-> html, markup |-> rewritten])
    /\ queue' = EnqueueLinks(queue, ExtractOf[html][cur].links, cur, rootURL, crawled)
    /\ disc' = [h \in DOMAIN disc \cup {Href(queue'[i]) : i \in DOMAIN queue'} |->
                  IF h \in DOMAIN disc THEN disc[h] ELSE disc[Href(cur)] + 1]
    /\ BackToMain
    /\ UNCHANGED <<rootURL, crawled, assetWrites, assetSeen, unclosed, handled,
                   navFails, throws, guardFired, zipCalls>>

\* The awaits of handlePage that can reject outside a try block.
ThrowingSteps == {"newPage", "intercept", "closeFailed", "evaluate", "content",
                  "close", "write"}

\* main without its try/catch: the exception reaches main().catch (exit 1).
Throw_uncaught ==
    /\ UNCHANGED notSeq
    /\ hp \in ThrowingSteps
    /\ throws' = TRUE
    /\ pc' = "aborted"
    /\ hp' = "idle"
    /\ UNCHANGED <<frontier, cur, assets, capture, unclosed, handled, disc, navFails,
                   guardFired, zipCalls>>

\* handlePage throws: main catches, logs, and goes on with the loop.
Throw ==
    /\ UNCHANGED notSeq
    /\ hp \in ThrowingSteps
    /\ throws' = TRUE
    /\ BackToMain
    /\ UNCHANGED <<frontier, pageWrites, assetWrites, assetSeen, unclosed, handled,
                   disc, navFails, guardFired, zipCalls>>

(***************************************************************************)
(* The response handler and the asset promises it starts.                  *)
(***************************************************************************)
\* The session is open and the navigation has begun.
Listening == hp \in {"goto", "closeFailed", "waitAssets", "evaluate", "content",
                     "sleep", "close"}

RECURSIVE Sum(_, _)
\* The sum of f over the set S.
Sum(f, S) == IF S = {} THEN 0
             ELSE LET x == CHOOSE y \in S : TRUE IN f[x] + Sum(f, S \ {x})

\* page.on("response", ...): an image or stylesheet response starts a promise
\* (resp.buffer() / resp.text() pending) and pushes it; others are ignored.
Response ==
    /\ UNCHANGED notSeq
    /\ Listening
    /\ \E r \in Responses :
          IF IsAsset(r)
          THEN /\ Sum(assetSeen, AssetFiles) < MaxAssets
               /\ assetPromises' =
                      [assetPromises EXCEPT ![<<AssetFile(r), "reading", "page">>] = @ + 1]
               /\ assetSeen' = [assetSeen EXCEPT ![AssetFile(r)] = @ + 1]
          ELSE UNCHANGED <<assetPromises, assetSeen>>
    /\ UNCHANGED <<frontier, control, assetWrites, capture, ghosts>>

\* One step of a promise k = <<file, state, owner>>: the body is read, then
\* the file written; a failure of either is caught and logged inside the
\* promise, which settles either way.
AssetStep(k) ==
    \/ /\ k[2] = "reading"
       /\ assetPromises' = [assetPromises EXCEPT ![k] = @ - 1,
                                                 ![<<k[1], "writing", k[3]>>] = @ + 1]
       /\ UNCHANGED assetWrites
    \/ /\ k[2] = "writing"
       /\ assetPromises' = [assetPromises EXCEPT ![k] = @ - 1]
       /\ assetWrites' = [assetWrites EXCEPT ![k[1]] = @ + 1]
    \/ /\ assetPromises' = [assetPromises EXCEPT ![k] = @ - 1]
       /\ UNCHANGED assetWrites

\* An unsettled asset promise advances; after process.exit nothing runs.
AssetProgress ==
    /\ UNCHANGED notSeq
    /\ pc # "aborted"
    /\ \E k \in PromiseKeys :
          /\ assetPromises[k] > 0
          /\ AssetStep(k)
    /\ UNCHANGED <<frontier, control, assetSeen, capture, ghosts>>

Next ==
    \/ Dequeue \/ ExitLoop \/ BrowserClose \/ Zip
    \/ NewPage \/ Intercept \/ GotoOk \/ GotoFail \/ CloseFailed \/ AssetsAwaited
    \/ Evaluate \/ Content \/ Sleep \/ ClosePage \/ WritePage \/ Throw
    \/ Response \/ AssetProgress

Spec == Init /\ [][Next]_vars

\* The steps of main and of handlePage: every await of theirs eventually
\* resolves or rejects, and an unsettled asset promise eventually settles.
MainStep ==
    \/ Throw
    \/ Dequeue \/ ExitLoop \/ BrowserClose \/ Zip
    \/ NewPage \/ Intercept \/ GotoOk \/ GotoFail \/ CloseFailed \/ AssetsAwaited
    \/ Evaluate \/ Content \/ Sleep \/ ClosePage \/ WritePage
FairSpec == Spec /\ WF_vars(MainStep) /\ WF_vars(AssetProgress)

(***************************************************************************)
(* slug called on its own, on URLs of every shape.                         *)
(***************************************************************************)
\* The sequential crawl has not been started.
SeqOff ==
    /\ rootURL = InvalidURL
    /\ queue = <<>>
    /\ crawled = {}
    /\ pc = "off"
    /\ hp = "idle"
    /\ cur = InvalidURL
    /\ assetPromises = [k \in PromiseKeys |-> 0]
    /\ html = <<>>
    /\ rewritten = <<>>
    /\ pageWrites = <<>>
    /\ assetWrites = [f \in AssetFiles |-> 0]
    /\ assetSeen = [f \in AssetFiles |-> 0]
    /\ unclosed = 0
    /\ handled = <<>>
    /\ disc = <<>>
    /\ navFails = FALSE
    /\ throws = FALSE
    /\ guardFired = FALSE
    /\ zipCalls = 0

SlugAlphabet == {"/", "a", ".", "-"}
\* url.pathname of the URLs: it always begins with a slash.
SlugPaths ==
    {p \in UNION {[1..n -> SlugAlphabet] : n \in 1..MaxPathLen} : p[1] = "/"}
       \cup {<<"/", "c", "o", "l", "u", "m", "n", "/">>, <<"/", "a", "/", "b">>}
SlugInputs == [scheme : Schemes, host : Hosts, port : {""}, path : SlugPaths,
               query : {"", "?q=1"}, hash : {"", "#f"}]

SlugInit ==
    /\ SeqOff
    /\ ConcOff
    /\ slugIn \in SlugInputs
    /\ slugOut = <<>>

\* slug(url) is called and returns.
ApplySlug ==
    /\ slugIn # InvalidURL
    /\ Len(slugOut) < 2
    /\ slugOut' = Append(slugOut, slug(slugIn))
    /\ UNCHANGED <<slugIn, notSlug>>

SlugNext == ApplySlug
SlugSpec == SlugInit /\ [][SlugNext]_vars

(***************************************************************************)
(* The concurrent variant (src/unnamed/part_000): main starts up to        *)
(* CONCURRENT handlePage calls without awaiting them and waits for them    *)
(* with Promise.race.  The continuation of main runs in a microtask, so    *)
(* when main can go on it does so before any worker or response handler    *)
(* takes another step.                                                     *)
(***************************************************************************)
\* HTMLAnchorElement.href: the resolved absolute URL ("" without the attribute,
\* the attribute as written when it does not parse).
AHref(raw, pageURL) == ImgSrc(raw, pageURL)

RECURSIVE Interleave(_, _)
\* rep before every character of s.
Interleave(s, rep) == IF s = <<>> THEN <<>> ELSE rep \o <<Head(s)>> \o Interleave(Tail(s), rep)
\* String.prototype.replaceAll(pat, rep): every occurrence of the literal pat;
\* the empty pattern matches before every character and at the end.
ReplaceAllLit(s, pat, rep) ==
    IF pat = <<>> THEN Interleave(s, rep) \o rep ELSE ReplaceAll(s, pat, rep)
RECURSIVE ReplaceAllInMarkup(_, _, _)
ReplaceAllInMarkup(m, pat, rep) ==
    IF m = <<>> THEN <<>>
    ELSE <<[Head(m) EXCEPT !.val = ReplaceAllLit(@, pat, rep)]>>
         \o ReplaceAllInMarkup(Tail(m), pat, rep)

\* !visited.has(u.href) && !queue.some(...) with visited bound to the set of
\* main: the link is pushed unless visited or queued.
OfferLink_visitedInScope(q, v, u) ==
    IF Href(u) \notin v /\ ~queueHas(q, Href(u)) THEN Append(q, u) ELSE q
\* if (!visited.has(u.href) && !queue.some(...)) queue.push(u) inside
\* handlePage, where no `visited` is in scope: evaluating the name throws a
\* ReferenceError, the catch around the loop body swallows it, and the queue
\* is left as it was.
OfferLink(q, v, u) == q

RECURSIVE LinkLoop(_, _, _, _, _, _)
\* The loop over links: same-site links are rewritten in the markup and
\* offered to the queue.  The result is the markup and the queue after it.
LinkLoop(m, q, links, url, root, v) ==
    IF links = <<>> THEN [markup |-> m, queue |-> q]
    ELSE LET link == Head(links)
             u == ParseURL(link, url)
             skip == u = InvalidURL \/ ~isSameSite(root, u)
         IN  LinkLoop(IF skip THEN m
                      ELSE ReplaceAllInMarkup(m, link, <<"./">> \o localHtmlFile(u)),
                      IF skip THEN q ELSE OfferLink(q, v, u),
                      Tail(links), url, root, v)

\* page.evaluate(...) of the concurrent variant: the resolved hrefs of the
\* anchors and the resolved srcs of the images.
ExtractC(d, pageURL) ==
    [links |-> [i \in DOMAIN SelectTag(d, "a") |->
                   AHref(SelectTag(d, "a")[i], pageURL)],
     imgs |-> Extract(d, pageURL).imgs]

\* A handlePage promise just created: the call runs up to its first await.
NewWorker(url) == [url |-> url, st |-> "newPage", markup |-> <<>>, html |-> <<>>]
Fulfilled(w) == w.st = "fulfilled"
Rejected(w) == w.st = "rejected"
SettledWorker(w) == Fulfilled(w) \/ Rejected(w)

\* (workers[i] as any).status === "fulfilled" || ... === "rejected": a promise
\* has no property `status`, so the test is false for every worker.
HasStatus(w) == FALSE
RECURSIVE Splice(_)
\* The workers left by the loop that splices those that have a status.
Splice(ws) ==
    IF ws = <<>> THEN <<>>
    ELSE (IF HasStatus(Head(ws)) THEN <<>> ELSE <<Head(ws)>>) \o Splice(Tail(ws))

RECURSIVE Fill(_, _, _, _)
\* The inner loop: URLs are taken off the queue and handed to new workers
\* while fewer than n promises are in workers and the queue is not empty.
Fill(q, v, ws, n) ==
    IF Len(ws) < n /\ Len(q) > 0
    THEN IF Href(Head(q)) \in v
         THEN Fill(Tail(q), v, ws, n)
         ELSE Fill(Tail(q), v \cup {Href(Head(q))}, Append(ws, NewWorker(Head(q))), n)
    ELSE [queue |-> q, visited |-> v, workers |-> ws]

RECURSIVE FirstSettled(_)
\* Index of the first settled promise of ws, 0 when none is settled: the one
\* Promise.race(ws) settles with.
FirstSettled(ws) ==
    IF ws = <<>> THEN 0
    ELSE IF SettledWorker(ws[1]) THEN 1
    ELSE IF FirstSettled(Tail(ws)) = 0 THEN 0 ELSE 1 + FirstSettled(Tail(ws))

\* main can go on without waiting for anything.
MainRunnable ==
    \/ mpc = "loop"
    \/ mpc = "race" /\ FirstSettled(workers) # 0
    \/ mpc = "joinAll" /\ \/ \E i \in DOMAIN workers : Rejected(workers[i])
                          \/ \A i \in DOMAIN workers : Fulfilled(workers[i])
\* Workers and response handlers run when main waits and the process lives.
WorkersRun == ~MainRunnable /\ mpc \notin {"off", "aborted"}

ConcInit ==
    /\ SeqOff
    /\ SlugIdle
    /\ cRoot \in Seeds
    /\ cQueue = <<cRoot>>
    /\ visited = {}
    /\ workers = <<>>
    /\ mpc = "loop"
    /\ cMaxPages \in 1..MaxBudget
    /\ CONCURRENT \in 1..MaxConcurrent
    /\ cPageWrites = <<>>
    /\ imgPending = 0
    /\ imgSeen = 0
    /\ imgWrites = 0
    /\ cZipCalls = 0
    /\ cAbortAt = "none"

\* The outer loop test holds: the inner loop runs and Promise.race is called.
Pass ==
    /\ mpc = "loop"
    /\ Len(cQueue) > 0 /\ Cardinality(visited) < cMaxPages
    /\ cQueue' = Fill(cQueue, visited, workers, CONCURRENT).queue
    /\ visited' = Fill(cQueue, visited, workers, CONCURRENT).visited
    /\ workers' = Fill(cQueue, visited, workers, CONCURRENT).workers
    /\ mpc' = "race"
    /\ UNCHANGED <<cRoot, cMaxPages, CONCURRENT, cPageWrites, imgPending, imgSeen,
                   imgWrites, cZipCalls, cAbortAt, notConc>>

\* The outer loop test fails: Promise.all(workers) is called.
LeaveLoop ==
    /\ mpc = "loop"
    /\ ~(Len(cQueue) > 0 /\ Cardinality(visited) < cMaxPages)
    /\ mpc' = "joinAll"
    /\ UNCHANGED <<cRoot, cQueue, visited, workers, cMaxPages, CONCURRENT, cPageWrites,
                   imgPending, imgSeen, imgWrites, cZipCalls, cAbortAt, notConc>>

\* await Promise.race(workers).then(...): fulfilled by a worker, the callback
\* runs and main is back at the outer loop test; rejected by a worker, main
\* throws into main().catch (exit 1).
RaceWake ==
    /\ mpc = "race"
    /\ FirstSettled(workers) # 0
    /\ IF Fulfilled(workers[FirstSettled(workers)])
       THEN /\ workers' = Splice(workers)
            /\ mpc' = "loop"
            /\ UNCHANGED cAbortAt
       ELSE /\ mpc' = "aborted"
            /\ cAbortAt' = "race"
            /\ UNCHANGED workers
    /\ UNCHANGED <<cRoot, cQueue, visited, cMaxPages, CONCURRENT, cPageWrites,
                   imgPending, imgSeen, imgWrites, cZipCalls, notConc>>

\* await Promise.all(workers): rejects with the first rejected worker,
\* resolves when all are fulfilled.
JoinAll ==
    /\ mpc = "joinAll"
    /\ IF \E i \in DOMAIN workers : Rejected(workers[i])
       THEN /\ mpc' = "aborted"
            /\ cAbortAt' = "joinAll"
       ELSE /\ \A i \in DOMAIN workers : Fulfilled(workers[i])
            /\ mpc' = "browserClose"
            /\ UNCHANGED cAbortAt
    /\ UNCHANGED <<cRoot, cQueue, visited, workers, cMaxPages, CONCURRENT, cPageWrites,
                   imgPending, imgSeen, imgWrites, cZipCalls, notConc>>

\* await browser.close(): resolves, or rejects into main().catch (exit 1).
CBrowserClose ==
    /\ mpc = "browserClose"
    /\ \E ok \in BOOLEAN :
          IF ok THEN /\ mpc' = "zip"
                     /\ cZipCalls' = cZipCalls + 1
                     /\ UNCHANGED cAbortAt
          ELSE /\ mpc' = "aborted"
               /\ cAbortAt' = "browserClose"
               /\ UNCHANGED cZipCalls
    /\ UNCHANGED <<cRoot, cQueue, visited, workers, cMaxPages, CONCURRENT, cPageWrites,
                   imgPending, imgSeen, imgWrites, notConc>>

\* await zipDirectory(...): resolves, or rejects into main().catch (exit 1).
CZip ==
    /\ mpc = "zip"
    /\ \E ok \in BOOLEAN :
          IF ok THEN mpc' = "done" /\ UNCHANGED cAbortAt
          ELSE mpc' = "aborted" /\ cAbortAt' = "zip"
    /\ UNCHANGED <<cRoot, cQueue, visited, workers, cMaxPages, CONCURRENT, cPageWrites,
                   imgPending, imgSeen, imgWrites, cZipCalls, notConc>>

\* What a step of worker i leaves alone.
WorkerFrame == <<cRoot, visited, mpc, cMaxPages, CONCURRENT, imgPending, imgSeen,
                 imgWrites, cZipCalls, cAbortAt, notConc>>

\* await browser.newPage() resolves; mkdirSync; page.on; page.goto begun.
WNewPage ==
    /\ WorkersRun
    /\ \E i \in DOMAIN workers :
          /\ workers[i].st = "newPage"
          /\ workers' = [workers EXCEPT ![i].st = "goto"]
    /\ UNCHANGED <<cQueue, cPageWrites, WorkerFrame>>

\* await page.goto(...) resolves; page.evaluate begun.
WGoto ==
    /\ WorkersRun
    /\ \E i \in DOMAIN workers :
          /\ workers[i].st = "goto"
          /\ workers' = [workers EXCEPT ![i].st = "evaluate"]
    /\ UNCHANGED <<cQueue, cPageWrites, WorkerFrame>>

\* await page.evaluate(...) resolves with the document the site served; the
\* image pass and the link loop run; fs.writeFile begun.
WEvaluate ==
    /\ WorkersRun
    /\ \E i \in DOMAIN workers : \E d \in Docs :
          LET url == workers[i].url
              ex == ExtractC(d, url)
              out == LinkLoop(RewriteImgs(d, ex.imgs), cQueue, ex.links, url, cRoot,
                              visited)
          IN  /\ workers[i].st = "evaluate"
              /\ workers' = [workers EXCEPT ![i].st = "write", ![i].html = d,
                                            ![i].markup = out.markup]
              /\ cQueue' = out.queue
    /\ UNCHANGED <<cPageWrites, WorkerFrame>>

\* await fs.writeFile(filePath, rewritten) resolves; page.close begun.
WWrite ==
    /\ WorkersRun
    /\ \E i \in DOMAIN workers :
          /\ workers[i].st = "write"
          /\ cPageWrites' = Append(cPageWrites,
                                   [file |-> localHtmlFile(workers[i].url),
                                    url |-> workers[i].url,
                                    html |-> workers[i].html,
                                    markup |-> workers[i].markup])
          /\ workers' = [workers EXCEPT ![i].st = "close"]
    /\ UNCHANGED <<cQueue, WorkerFrame>>

\* await page.close() resolves: handlePage returns, its promise is fulfilled.
WClose ==
    /\ WorkersRun
    /\ \E i \in DOMAIN workers :
          /\ workers[i].st = "close"
          /\ workers' = [workers EXCEPT ![i].st = "fulfilled"]
    /\ UNCHANGED <<cQueue, cPageWrites, WorkerFrame>>

\* An await of handlePage rejects (page.goto included: no try block is around
\* any of them): the promise of the worker is rejected.
WThrow ==
    /\ WorkersRun
    /\ \E i \in DOMAIN workers :
          /\ ~SettledWorker(workers[i])
          /\ workers' = [workers EXCEPT ![i].st = "rejected"]
    /\ UNCHANGED <<cQueue, cPageWrites, WorkerFrame>>

\* page.on("response", async ...): an image response starts a handler that
\* reads the body and writes the file; other responses are ignored.
CResponse ==
    /\ WorkersRun
    /\ \E i \in DOMAIN workers : workers[i].st \in {"goto", "evaluate", "write", "close"}
    /\ \E r \in Responses :
          IF r.ctype = "image/"
          THEN /\ imgSeen < MaxAssets
               /\ imgSeen' = imgSeen + 1
               /\ imgPending' = imgPending + 1
          ELSE UNCHANGED <<imgSeen, imgPending>>
    /\ UNCHANGED <<cRoot, cQueue, visited, workers, mpc, cMaxPages, CONCURRENT,
                   cPageWrites, imgWrites, cZipCalls, cAbortAt, notConc>>

\* A response handler ends: the file is written, or the read or the write
\* failed and the catch block ignored it.
CImageDone ==
    /\ WorkersRun
    /\ imgPending > 0
    /\ imgPending' = imgPending - 1
    /\ \E ok \in BOOLEAN : imgWrites' = imgWrites + (IF ok THEN 1 ELSE 0)
    /\ UNCHANGED <<cRoot, cQueue, visited, workers, mpc, cMaxPages, CONCURRENT,
                   cPageWrites, imgSeen, cZipCalls, cAbortAt, notConc>>

ConcNext ==
    \/ Pass \/ LeaveLoop \/ RaceWake \/ JoinAll \/ CBrowserClose \/ CZip
    \/ WNewPage \/ WGoto \/ WEvaluate \/ WWrite \/ WClose \/ WThrow
    \/ CResponse \/ CImageDone
ConcSpec == ConcInit /\ [][ConcNext]_vars

(***************************************************************************)
(* The claims.                                                             *)
(***************************************************************************)
NoDup(s) == \A i, j \in DOMAIN s : i # j => s[i] # s[j]
QueueHrefs == [i \in DOMAIN queue |-> Href(queue[i])]
OriginOfHref(h) == Origin(ParseAbs(h))
Occurrences(s, x) == Cardinality({i \in DOMAIN s : s[i] = x})
PageFiles == [i \in DOMAIN pageWrites |-> pageWrites[i].file]

\* C1: the visited set never holds more than MAX_PAGES hrefs, and once it
\* holds MAX_PAGES no step takes a URL off the queue or hands one to
\* handlePage, whatever is left in the queue and however the pages fared.
C1_Budget ==
    /\ [](Cardinality(crawled) <= MAX_PAGES)
    /\ [][Cardinality(crawled) = MAX_PAGES
            => Len(queue') >= Len(queue) /\ handled' = handled /\ crawled' = crawled]_vars
\* The budget is exhausted with URLs left in the queue, after a failed navigation.
C1_Witness ==
    /\ Cardinality(crawled) = MAX_PAGES
    /\ queue # <<>>
    /\ navFails
    /\ pc = "done"

\* C2: every URL in the queue or in the visited set has the seed's origin.
C2_SameOrigin ==
    /\ \A i \in DOMAIN queue : isSameSite(rootURL, queue[i])
    /\ \A h \in crawled : OriginOfHref(h) = Origin(rootURL)

\* C3: when the rewriter has run and the page file is being written, no asset
\* promise of that page's session is still unsettled.
C3_AssetsBeforePage ==
    hp = "write" => Settled(assetPromises, {"page", "awaited"})

\* C4: from the failure of page.goto to the end of that handlePage call no page
\* file is written and nothing is added to the queue, the URL stays visited,
\* and the call ends with main back at its loop test, the queue as it was.
C4_NavFailure ==
    [][(hp = "closeFailed" \/ hp' = "closeFailed")
          => /\ queue' = queue
             /\ pageWrites' = pageWrites
             /\ crawled' = crawled
             /\ Href(cur) \in crawled
             /\ \/ hp' = "closeFailed"
                \/ hp' = "idle" /\ pc' = "loop"]_vars
\* A page is being written although an earlier page's navigation failed.
C4_Witness ==
    /\ navFails
    /\ hp = "write"
    /\ Len(handled) >= 2

\* C5: nothing that happens while a page is processed ends the run: the run
\* aborts only from browser.close or zipDirectory; every exit of handlePage,
\* by return or by exception, leaves main at its loop test; a step of an asset
\* promise settles or advances that promise alone and touches neither the
\* crawl nor the page; and the run always gets to browser.close, which hands
\* over to zipDirectory unless browser.close itself rejects.
C5_FailureIsolation ==
    /\ [][/\ pc' = "aborted" => pc \in {"browserClose", "zip", "aborted"}
          /\ (hp # "idle" /\ hp' = "idle") => pc' = "loop"
          /\ assetWrites' # assetWrites \/ Sum(assetPromises', PromiseKeys)
                                             < Sum(assetPromises, PromiseKeys)
               => /\ UNCHANGED <<frontier, control, capture>>
                  /\ Sum(assetPromises', PromiseKeys)
                        = Sum(assetPromises, PromiseKeys) - 1]_vars
    /\ <>(pc \in {"zip", "aborted"})
\* A handlePage call threw, an asset write failed, and the archive is being built.
C5_Witness ==
    /\ throws
    /\ Sum(assetSeen, AssetFiles) = MaxAssets
    /\ Sum(assetWrites, AssetFiles) = 1
    /\ Sum(assetPromises, PromiseKeys) = 0
    /\ Len(pageWrites) >= 1
    /\ pc = "zip"

\* C6: whenever no handlePage call is running, every session handlePage
\* opened has been closed by it.
C6_SessionsClosed == hp = "idle" => unclosed = 0

\* C7: the queue holds no href twice and none that is visited, the guard of
\* main never skips a dequeued URL, no href is handed to handlePage twice, and
\* the visited set only grows.
C7_Frontier ==
    /\ [](/\ NoDup(QueueHrefs)
          /\ Range(QueueHrefs) \cap crawled = {}
          /\ ~guardFired
          /\ NoDup(handled))
    /\ [][crawled \subseteq crawled']_vars
\* Two pages were written and the queue is empty: the links of the second
\* were all visited or queued already.
C7_Witness ==
    /\ Len(pageWrites) >= 2
    /\ queue = <<>>
    /\ pc = "loop"

\* C8 (as claimed): no page file and no asset file is written twice.
C8_WriteOnce ==
    /\ NoDup(PageFiles)
    /\ \A f \in AssetFiles : assetWrites[f] <= 1
\* C8 (amended): a page file is written at most once for each visited URL that
\* maps to it, and an asset file at most once for each response observed for it.
C8_WriteOncePerSource ==
    /\ \A f \in Range(PageFiles) :
          Occurrences(PageFiles, f)
             <= Cardinality({h \in crawled : localHtmlFile(ParseAbs(h)) = f})
    /\ NoDup([i \in DOMAIN pageWrites |-> pageWrites[i].url])
    /\ \A f \in AssetFiles : assetWrites[f] <= assetSeen[f]
\* A page file is overwritten by the page of another URL with the same slug.
C8_Witness ==
    \E i, j \in DOMAIN pageWrites :
        /\ i < j
        /\ pageWrites[i].file = pageWrites[j].file
        /\ pageWrites[i].url # pageWrites[j].url

\* C9: in every persisted page, an href that resolves outside the seed's
\* origin is as it was captured.
C9_CrossOriginUntouched ==
    \A n \in DOMAIN pageWrites :
       LET w == pageWrites[n]
       IN  \A i \in DOMAIN w.html :
              /\ w.html[i].tag \in {"a", "link"}
              /\ w.html[i].val # <<>>
              /\ ParseURL(w.html[i].val, ParseAbs(w.url)) # InvalidURL
              /\ ~isSameSite(rootURL, ParseURL(w.html[i].val, ParseAbs(w.url)))
              => w.markup[i].val = w.html[i].val

\* C10: the hrefs handed to handlePage are in non-decreasing order of depth,
\* and no queued href is shallower than one already handed over.
C10_BreadthFirst ==
    /\ \A i, j \in DOMAIN handled : i < j => disc[handled[i]] <= disc[handled[j]]
    /\ \A i \in DOMAIN handled : \A j \in DOMAIN queue :
          disc[handled[i]] <= disc[Href(queue[j])]
\* A page of depth 2 is processed after one of depth 1.
C10_Witness ==
    \E i, j \in DOMAIN handled :
        i < j /\ disc[handled[i]] = 1 /\ disc[handled[j]] = 2

C12_PauseEveryBatch == hp = "close" => Len(handled) % BATCH_SIZE = 0

\* C13: the count printed at the end of the run is the number of page files
\* written during the run.
C13_CountIsPersisted == pc = "done" => FinalCount = Len(pageWrites)

\* C19: when zipDirectory has been called and is building the archive, no
\* asset promise started by a response handler is still unsettled.
C19_AssetsSettledAtZip == pc = "zip" => Sum(assetPromises, PromiseKeys) = 0

\* The hrefs the links of document d served at url resolve to, for those that
\* resolve and have the hostname of root.
HostLinks(d, url, root) ==
    LET links == SelectTag(d, "a")
    IN  {Href(ParseURL(links[i], url)) :
            i \in {j \in DOMAIN links :
                     /\ links[j] # <<>>
                     /\ ParseURL(links[j], url) # InvalidURL
                     /\ Hostname(ParseURL(links[j], url)) = Hostname(root)}}
HostLinksOf == [d \in Docs |-> [u \in PageURLs |-> [r \in Seeds |-> HostLinks(d, u, r)]]]
\* The same for a persisted page.
LinkedInScope(w) ==
    HostLinksOf[w.html][CHOOSE u \in PageURLs : Href(u) = w.url][rootURL]
\* C20: every link of a persisted page that has the seed's hostname is visited
\* or still queued; and once the loop has ended with budget left, the queue is
\* empty and all of them are visited.
C20_Complete ==
    /\ \A n \in DOMAIN pageWrites :
          LinkedInScope(pageWrites[n]) \subseteq crawled \cup Range(QueueHrefs)
    /\ (pc \in {"browserClose", "zip", "done", "aborted"}
          /\ Cardinality(crawled) < MAX_PAGES)
         => /\ queue = <<>>
            /\ \A n \in DOMAIN pageWrites : LinkedInScope(pageWrites[n]) \subseteq crawled
\* The run has ended with budget left after two pages whose links were followed.
C20_Witness ==
    /\ pc = "done"
    /\ Cardinality(crawled) = 2
    /\ Cardinality(crawled) < MAX_PAGES
    /\ Len(pageWrites) = 2
    /\ \E n \in DOMAIN pageWrites : LinkedInScope(pageWrites[n]) # {}

\* The URLs that differ from u in scheme, host, query or fragment only.
SamePath(u) == [scheme : Schemes, host : Hosts, port : {""}, path : {u.path},
                query : {"", "?q=1"}, hash : {"", "#f"}]
\* The path without its leading slash and without one trailing slash.
Inner(p) == SubSeq(p, 2, IF Len(p) > 1 /\ p[Len(p)] = "/" THEN Len(p) - 1 ELSE Len(p))
\* C14: what slug returns is the same at every call and for every URL of the
\* same path; it is "root" for the path "/", "index" when nothing is left of
\* the path once its leading and one trailing slash are stripped, and that
\* remainder with "_" for each character outside [a-zA-Z0-9_-] otherwise; it
\* is never empty and holds characters of [a-zA-Z0-9_-] only.
C14_Slug ==
    \A n \in DOMAIN slugOut :
       LET out == slugOut[n]
           p == slugIn.path
       IN  /\ out = slugOut[1]
           /\ \A v \in SamePath(slugIn) : slug(v) = out
           /\ out # <<>>
           /\ \A i \in DOMAIN out : out[i] \in SafeChars
           /\ p = <<"/">> => out = <<"r", "o", "o", "t">>
           /\ p # <<"/">> /\ Inner(p) = <<>> => out = <<"i", "n", "d", "e", "x">>
           /\ p # <<"/">> /\ Inner(p) # <<>>
                => /\ Len(out) = Len(Inner(p))
                   /\ \A i \in DOMAIN out :
                         out[i] = IF Inner(p)[i] \in SafeChars THEN Inner(p)[i] ELSE "_"
           /\ p = <<"/", "c", "o", "l", "u", "m", "n", "/">>
                => out = <<"c", "o", "l", "u", "m", "n">>
           /\ p = <<"/", "a", "/", "b">> => out = <<"a", "_", "b">>
\* slug has returned "a_b" for /a/b?q=1.
C14_Witness ==
    /\ slugIn.path = <<"/", "a", "/", "b">>
    /\ slugIn.query = "?q=1"
    /\ slugOut = <<<<"a", "_", "b">>, <<"a", "_", "b">>>>

\* C15 (concurrent variant): a failure of one page worker never aborts the
\* run: main ends in main().catch only when browser.close() or zipDirectory
\* itself rejects, never at the Promise.race or Promise.all over the workers.
C15_WorkerFailureIsolated ==
    mpc = "aborted" => cAbortAt \in {"browserClose", "zip"}

\* C16 (concurrent variant): after the Promise.race wake-up, when main is back
\* at the test of the outer loop, no finished worker is left in workers.
C16_SlotReleased ==
    mpc = "loop" => \A i \in DOMAIN workers : ~SettledWorker(workers[i])

SiteLinks(w) ==
    {Href(ParseURL(ExtractC(w.html, w.url).links[k], w.url)) :
        k \in {j \in DOMAIN ExtractC(w.html, w.url).links :
                  /\ ParseURL(ExtractC(w.html, w.url).links[j], w.url) # InvalidURL
                  /\ isSameSite(cRoot, ParseURL(ExtractC(w.html, w.url).links[j],
                                                w.url))}}
\* C18 (concurrent variant): once the worker of a page that navigated
\* successfully has run its link loop, every discovered link that resolves
\* to the site of the seed is in visited or in the queue.
C18_Discovery ==
    \A i \in DOMAIN workers :
        workers[i].st \in {"write", "close", "fulfilled"} =>
            \A h \in SiteLinks(workers[i]) : h \in visited \/ queueHas(cQueue, h)


=============================================================================
